---- MODULE Spec2Model ----
(***************************************************************************)
(* A model of the Flask-API backend of gen-ai-project: the transcript      *)
(* chunker and ChromaDB index build (app.py, rag_engine.py), the request   *)
(* handlers and async summary workers (app.py) and the LLM-judged metric   *)
(* functions (metrics_engine.py).                                          *)
(*                                                                         *)
(* Text is a sequence of one-character strings.  Floats are exact          *)
(* rationals <<numerator, denominator>> with a positive denominator.       *)
(* A Python call that may raise yields [exc, val]; exc = TRUE is the       *)
(* exception leaving the call.                                             *)
(***************************************************************************)
EXTENDS Integers, Sequences, FiniteSets, TLC

\* ------------------------------------------------------------------ bounds

\* request-handling threads of the WSGI server
NumThreads == 2
\* job slots: one worker thread per submitted job
MaxJobs == 1
\* requests accepted over a run
MaxRequests == 2
\* characters a chunk may reach before it is closed (config/env CHUNK_SIZE, scaled)
CHUNK_SIZE == 4
\* longest judge reply, in characters (rating) or tokens (retrieval judge)
MaxRespLen == 3
\* longest relevant_chunks list the retrieval judge returns
MaxRelLen == 2
\* most chunks handed to evaluate_retrieval
MaxContexts == 2
\* segments of a transcript handed to the chunker
MaxSegs == 3
\* longest answer and context handed to calculate_faithfulness
MaxTextLen == 3
\* entity spans the NER model recognizes in one transcript
MaxSpans == 3

\* ------------------------------------------------------------- constants

\* ask() retrieves with top_k=5
TopK == 5
\* most_common(5) in extract_key_facts
TopN == 5

\* ------------------------------------------------------------ rationals

Rat(n, d) == <<n, d>>
RZero == <<0, 1>>
ROne == <<1, 1>>
RHalf == <<1, 2>>
RatEq(a, b) == a[1] * b[2] = b[1] * a[2]
RatLeq(a, b) == a[1] * b[2] <= b[1] * a[2]
RatSub(a, b) == <<a[1] * b[2] - b[1] * a[2], a[2] * b[2]>>
InUnit(a) == RatLeq(RZero, a) /\ RatLeq(a, ROne)

\* ----------------------------------------------------- Python call results

Ok(v) == [exc |-> FALSE, val |-> v]
Raised(v) == [exc |-> TRUE, val |-> v]

\* ----------------------------------------------------------------- text

\* str.isspace() on the model's alphabet
IsSpace(c) == c \in { " ", "\n" }

RECURSIVE LStrip(_)
LStrip(s) ==
    IF s = <<>> THEN <<>>
    ELSE IF IsSpace(Head(s)) THEN LStrip(Tail(s)) ELSE s

RECURSIVE RStrip(_)
RStrip(s) ==
    IF s = <<>> THEN <<>>
    ELSE IF IsSpace(s[Len(s)]) THEN RStrip(SubSeq(s, 1, Len(s) - 1)) ELSE s

\* str.strip()
Strip(s) == RStrip(LStrip(s))

RECURSIVE FirstToken(_)
FirstToken(s) ==
    IF s = <<>> \/ IsSpace(Head(s)) THEN <<>>
    ELSE <<Head(s)>> \o FirstToken(Tail(s))

\* str.split(): the whitespace-delimited words, in order
RECURSIVE Split(_)
Split(s) ==
    LET t == LStrip(s)
        w == FirstToken(t)
    IN IF t = <<>> THEN <<>>
       ELSE <<w>> \o Split(SubSeq(t, Len(w) + 1, Len(t)))

\* -------------------------------------------------------------- video ids

NoneId == <<>>
\* two ids that differ only in "-" against "_"
VideoIds == { <<"a", "-">>, <<"a", "_">> }

\* get_or_create_collection: f"video_{video_id}".replace("-", "_")
SafeName(video_id) ==
    <<"v", "_">> \o [i \in DOMAIN video_id |->
                        IF video_id[i] = "-" THEN "_" ELSE video_id[i]]

Collections == { SafeName(v) : v \in VideoIds }

\* ------------------------------------------------------------ transcripts

Seg(text, start) == [text |-> text, start |-> start]

Transcript1 == << Seg(<<"a", "b", "c">>, 0), Seg(<<"d", "e">>, 2), Seg(<<"f">>, 5) >>
Transcript2 == << Seg(<<"x", " ">>, 1) >>

\* what get_transcript can hand back when it finds captions
Transcripts == { Transcript1, Transcript2 }

\* get_transcript returns None when nothing could be fetched
NoTranscript == <<>>

\* ---------------------------------------------------------------- chunker

MkChunk(text, start) == [text |-> Strip(text), start |-> start]

\* "if not current_chunk: current_start = start"
ChunkStartStale(current_chunk, current_start, start) == current_start
ChunkStart(current_chunk, current_start, start) ==
    IF current_chunk = <<>> THEN start ELSE current_start

\* "if len(current_chunk) > CHUNK_SIZE"
OverThresholdInclusive(current_chunk) == Len(current_chunk) >= CHUNK_SIZE
OverThreshold(current_chunk) == Len(current_chunk) > CHUNK_SIZE

\* after the loop: "if current_chunk: chunks.append(...)"
FinalChunkDropped(chunks, current_chunk, current_start) == chunks
FinalChunk(chunks, current_chunk, current_start) ==
    IF current_chunk # <<>>
    THEN Append(chunks, MkChunk(current_chunk, current_start))
    ELSE chunks

\* the loop of create_rag_index over transcript_data[i..], with the loop's
\* three locals
RECURSIVE ChunkLoop(_, _, _, _, _)
ChunkLoop(transcript_data, i, chunks, current_chunk, current_start) ==
    IF i > Len(transcript_data)
    THEN FinalChunk(chunks, current_chunk, current_start)
    ELSE LET text == transcript_data[i].text
             start == transcript_data[i].start
             cs == ChunkStart(current_chunk, current_start, start)
             cc == current_chunk \o <<" ">> \o text
         IN IF OverThreshold(cc)
            THEN ChunkLoop(transcript_data, i + 1,
                           Append(chunks, MkChunk(cc, cs)), <<>>, start)
            ELSE ChunkLoop(transcript_data, i + 1, chunks, cc, cs)

MakeChunks(transcript_data) == ChunkLoop(transcript_data, 1, <<>>, <<>>, 0)

\* ------------------------------------------------------------------ index

\* A ChromaDB collection is the sequence of batches that collection.add stored;
\* a batch keeps the video id it was built for and its documents.
Batch(video_id, chunks) == [vid |-> video_id, docs |-> chunks]

RECURSIVE Documents(_)
Documents(coll) ==
    IF coll = <<>> THEN <<>> ELSE Head(coll).docs \o Documents(Tail(coll))

\* collection.count()
CollectionCount(coll) == Len(Documents(coll))

\* add_video_to_index: "if collection.count() > 0: return"
AlreadyPopulatedUnchecked(coll) == FALSE
AlreadyPopulated(coll) == CollectionCount(coll) > 0

\* collection.add(ids, documents, metadatas): one fresh uuid per chunk
CollectionAddNothing(coll, video_id, chunks) == coll
CollectionAdd(coll, video_id, chunks) == Append(coll, Batch(video_id, chunks))

\* distances the backend may report (L2 distance is not bounded by 1)
Distances == { Rat(0, 1), Rat(1, 4), Rat(3, 2) }

\* the backend's behaviour on one collection.query call
Backends == [fails : BOOLEAN, distance : Distances]

Result(doc, distance) ==
    [text |-> doc.text, start |-> doc.start, distance |-> distance]

\* the try block of query_index
QueryBody(coll, k, backend) ==
    IF backend.fails
    THEN Raised(<<>>)
    ELSE LET docs == Documents(coll)
             n == IF Len(docs) < k THEN Len(docs) ELSE k
         IN Ok([i \in 1..n |-> Result(docs[i], backend.distance)])

\* query_index: "except Exception: return []"
QueryIndexNoExcept(coll, k, backend) == QueryBody(coll, k, backend)
QueryIndex(coll, k, backend) ==
    LET r == QueryBody(coll, k, backend)
    IN IF r.exc THEN Ok(<<>>) ELSE r

Retrieved(results, top_score) == [results |-> results, top_score |-> top_score]

\* retrieve_context: results and 1 - distance of the first, 0.0 when empty
RetrieveContext(coll, k, backend) ==
    LET q == QueryIndex(coll, k, backend)
    IN IF q.exc
       THEN Raised(Retrieved(<<>>, RZero))
       ELSE Ok(Retrieved(q.val,
                         IF q.val # <<>>
                         THEN RatSub(ROne, q.val[1].distance)
                         ELSE RZero))

\* ----------------------------------------------------------- judge replies

\* What ollama_func(prompt) does on one call: it raises, or it returns None
\* (no "response" key), text, or - with format="json" - a string of tokens
\* or already-structured data.
JsonRel(p, l) == [p |-> p, l |-> l]
RelAbsent == JsonRel("absent", <<>>)
RelNull == JsonRel("null", <<>>)
RelList(l) == JsonRel("list", l)

\* a JSON value: an object with optional relevant_chunks and sufficient
\* members, or an array, or a number
JsonValue(kind, rel, suf) == [kind |-> kind, rel |-> rel, suf |-> suf]
JsonObject(rel, suf) == JsonValue("object", rel, suf)
JsonArray == JsonValue("array", RelAbsent, "absent")
JsonNumber == JsonValue("number", RelAbsent, "absent")

\* a token of a reply string: a code fence, a run of prose, or JSON text
Token(k, v) == [k |-> k, v |-> v]
Fence == Token("fence", JsonNumber)
Prose == Token("prose", JsonNumber)
JsonText(v) == Token("json", v)

Reply(kind, text, tokens, obj) ==
    [kind |-> kind, text |-> text, tokens |-> tokens, obj |-> obj]
ReplyRaise == Reply("raise", <<>>, <<>>, JsonNumber)
ReplyNone == Reply("none", <<>>, <<>>, JsonNumber)
ReplyText(s) == Reply("text", s, <<>>, JsonNumber)
ReplyTokens(ts) == Reply("tokens", <<>>, ts, JsonNumber)
ReplyDict(o) == Reply("dict", <<>>, <<>>, o)

\* a metric's result: the value, or the exception leaving the function, and
\* the number of calls made to the judge
Metric(exc, val, calls) == [exc |-> exc, val |-> val, calls |-> calls]

\* a Python float or None
Float(r) == [none |-> FALSE, num |-> r]
PyNone == [none |-> TRUE, num |-> RZero]

\* ------------------------------------------------------------ int(token)

Digits == { "0", "1", "2", "3", "4", "5", "6", "7", "8", "9" }
DigitVal(c) ==
    CASE c = "0" -> 0 [] c = "1" -> 1 [] c = "2" -> 2 [] c = "3" -> 3
      [] c = "4" -> 4 [] c = "5" -> 5 [] c = "6" -> 6 [] c = "7" -> 7
      [] c = "8" -> 8 [] c = "9" -> 9

RECURSIVE DecimalVal(_)
DecimalVal(ds) ==
    IF ds = <<>> THEN 0
    ELSE 10 * DecimalVal(SubSeq(ds, 1, Len(ds) - 1)) + DigitVal(ds[Len(ds)])

AllDigits(ds) == ds # <<>> /\ \A i \in DOMAIN ds : ds[i] \in Digits
HasSign(tok) == tok # <<>> /\ Head(tok) \in { "-", "+" }
Unsigned(tok) == IF HasSign(tok) THEN Tail(tok) ELSE tok

\* int(str): an optional sign and decimal digits, ValueError otherwise
IntOf(tok) ==
    IF AllDigits(Unsigned(tok))
    THEN Ok(IF HasSign(tok) /\ Head(tok) = "-"
            THEN 0 - DecimalVal(Unsigned(tok))
            ELSE DecimalVal(Unsigned(tok)))
    ELSE Raised(0)

\* -------------------------------------------------- metrics_engine: ratings

\* int(response.strip().split()[0]) / 5.0, inside the try
RatingBody(reply) ==
    IF reply.kind # "text"
    THEN Raised(RZero)
    ELSE LET words == Split(Strip(reply.text))
         IN IF words = <<>>
            THEN Raised(RZero)
            ELSE LET score == IntOf(words[1])
                 IN IF score.exc THEN Raised(RZero) ELSE Ok(Rat(score.val, 5))

\* calculate_coherence: "except Exception: return 0.0"
CalculateCoherenceNoExcept(reply) ==
    Metric(RatingBody(reply).exc, Float(RatingBody(reply).val), 1)
CalculateCoherence(reply) ==
    LET r == RatingBody(reply)
    IN Metric(FALSE, Float(IF r.exc THEN RZero ELSE r.val), 1)

\* "if not ground_truth": None and "" are both falsy
GroundTruth(isNone, s) == [isNone |-> isNone, s |-> s]
Truthy(ground_truth) == ~ground_truth.isNone /\ ground_truth.s # <<>>

\* calculate_correctness
CalculateCorrectnessZeroForAbsent(ground_truth, reply) ==
    IF ~Truthy(ground_truth)
    THEN Metric(FALSE, Float(RZero), 0)
    ELSE LET r == RatingBody(reply)
         IN Metric(FALSE, Float(IF r.exc THEN RZero ELSE r.val), 1)
CalculateCorrectness(ground_truth, reply) ==
    IF ~Truthy(ground_truth)
    THEN Metric(FALSE, PyNone, 0)
    ELSE LET r == RatingBody(reply)
         IN Metric(FALSE, Float(IF r.exc THEN RZero ELSE r.val), 1)

\* ------------------------------------------- metrics_engine: retrieval judge

Triple(precision, mrr, recall_score) ==
    [context_precision |-> precision, mrr |-> mrr,
     context_recall_proxy |-> recall_score]
ZeroTriple == Triple(RZero, RZero, RZero)

\* json.loads(str): the whole string must be one JSON text
JsonLoads(tokens) ==
    IF Len(tokens) = 1 /\ tokens[1].k = "json"
    THEN Ok(tokens[1].v)
    ELSE Raised(JsonNumber)

\* "if isinstance(response, str): json.loads(response) else: response"
ResponseJson(reply) ==
    CASE reply.kind = "raise" -> Raised(JsonNumber)
      [] reply.kind = "tokens" -> JsonLoads(reply.tokens)
      [] reply.kind = "text" -> Raised(JsonNumber)
      [] reply.kind = "dict" -> Ok(reply.obj)
      [] OTHER -> Ok(JsonValue("none", RelAbsent, "absent"))

RECURSIVE MinOf(_)
MinOf(l) ==
    IF Len(l) = 1 THEN l[1]
    ELSE LET m == MinOf(Tail(l)) IN IF l[1] < m THEN l[1] ELSE m

\* 1.0 / k for k # 0
Reciprocal(k) == IF k > 0 THEN Rat(1, k) ELSE Rat(0 - 1, 0 - k)

\* "mrr = 1.0 / min(relevant_indices)" when the list is not empty
MrrFirstListed(relevant_indices) ==
    IF relevant_indices = <<>> THEN Ok(RZero)
    ELSE IF relevant_indices[1] = 0 THEN Raised(RZero)
    ELSE Ok(Reciprocal(relevant_indices[1]))
Mrr(relevant_indices) ==
    IF relevant_indices = <<>> THEN Ok(RZero)
    ELSE IF MinOf(relevant_indices) = 0 THEN Raised(RZero)
    ELSE Ok(Reciprocal(MinOf(relevant_indices)))

\* the try block of evaluate_retrieval, for n retrieved contexts (n > 0)
RetrievalBody(n, reply) ==
    LET rj == ResponseJson(reply)
    IN IF rj.exc \/ rj.val.kind # "object"
       THEN Raised(ZeroTriple)
       ELSE LET rel == IF rj.val.rel.p = "absent" THEN RelList(<<>>)
                       ELSE rj.val.rel
                is_sufficient == rj.val.suf = "true"
            IN IF rel.p = "null" \/ Mrr(rel.l).exc
               THEN Raised(ZeroTriple)
               ELSE Ok(Triple(Rat(Len(rel.l), n),
                              Mrr(rel.l).val,
                              IF is_sufficient THEN ROne ELSE RHalf))

\* evaluate_retrieval(question, contexts, ollama_func), n = len(contexts)
EvaluateRetrievalNoExcept(n, reply) ==
    IF n = 0 THEN Metric(FALSE, ZeroTriple, 0)
    ELSE Metric(RetrievalBody(n, reply).exc, RetrievalBody(n, reply).val, 1)
EvaluateRetrieval(n, reply) ==
    IF n = 0
    THEN Metric(FALSE, ZeroTriple, 0)
    ELSE LET r == RetrievalBody(n, reply)
         IN Metric(FALSE, IF r.exc THEN ZeroTriple ELSE r.val, 1)

\* ------------------------------------------------- faithfulness, relevance

\* str.lower() on the letters of the model's alphabet
Lower(c) == CASE c = "A" -> "a" [] c = "B" -> "b" [] OTHER -> c
LowerText(s) == [i \in DOMAIN s |-> Lower(s[i])]

\* set(text.lower().split())
WordSet(s) == LET ws == Split(LowerText(s)) IN { ws[i] : i \in DOMAIN ws }

\* set(text.split()), without the lower()
CaseWordSet(s) == LET ws == Split(s) IN { ws[i] : i \in DOMAIN ws }

\* calculate_faithfulness
CalculateFaithfulnessCaseSensitive(answer, context_text) ==
    LET answer_words == CaseWordSet(answer)
        context_words == CaseWordSet(context_text)
    IN IF answer_words = {} THEN RZero
       ELSE Rat(Cardinality(answer_words \cap context_words),
                Cardinality(answer_words))
CalculateFaithfulness(answer, context_text) ==
    LET answer_words == WordSet(answer)
        context_words == WordSet(context_text)
    IN IF answer_words = {} THEN RZero
       ELSE Rat(Cardinality(answer_words \cap context_words),
                Cardinality(answer_words))

\* the embedding capability on one call: it raises, or returns two vectors
Vectors == { <<0, 0>>, <<1, 0>>, <<0, 1>>, <<3, 4>>, <<0 - 1, 0>> }
Embedding(fails, emb1, emb2) == [fails |-> fails, emb1 |-> emb1, emb2 |-> emb2]
Embeddings ==
    { Embedding(f, a, b) : f \in BOOLEAN, a \in Vectors, b \in Vectors }

Dot(a, b) == a[1] * b[1] + a[2] * b[2]
\* x ** 0.5 for the perfect squares the model's vectors produce
Sqrt(x) == CHOOSE r \in 0..x : r * r = x

\* rag_engine.calculate_cosine_similarity: no try around the embedding call
CalculateCosineSimilarity(embedding) ==
    IF embedding.fails
    THEN Raised(RZero)
    ELSE LET norm1 == Sqrt(Dot(embedding.emb1, embedding.emb1))
             norm2 == Sqrt(Dot(embedding.emb2, embedding.emb2))
         IN IF norm1 = 0 \/ norm2 = 0
            THEN Ok(RZero)
            ELSE Ok(Rat(Dot(embedding.emb1, embedding.emb2), norm1 * norm2))

\* ------------------------------------------------------------ ner_extractor

\* doc.ents: the spans the NER model recognizes, in document order
Span(label, text) == [label |-> label, text |-> text]

\* the loop of extract_entities: spans whose (label, lower-cased text) was
\* seen are skipped; the rest are kept in order
RECURSIVE EntityLoop(_, _, _, _)
EntityLoop(ents, i, seen_entities, kept) ==
    IF i > Len(ents) THEN kept
    ELSE LET entity_key == <<ents[i].label, LowerText(ents[i].text)>>
         IN IF entity_key \in seen_entities
            THEN EntityLoop(ents, i + 1, seen_entities, kept)
            ELSE EntityLoop(ents, i + 1, seen_entities \cup { entity_key },
                            Append(kept, ents[i]))

\* extract_entities, and entities.get(label, []) as the texts of one category
ExtractEntities(ents) == EntityLoop(ents, 1, {}, <<>>)
TextsOf(entities, label) ==
    LET sel == SelectSeq(entities, LAMBDA e : e.label = label)
    IN [i \in DOMAIN sel |-> sel[i].text]

\* Counter(texts)[name]
CountOf(texts, name) == Cardinality({ i \in DOMAIN texts : texts[i] = name })

\* Counter(texts).most_common(n): by count, the largest first, equal counts
\* in the order first met
RECURSIVE MostCommonLoop(_, _, _, _)
MostCommonLoop(texts, left, n, out) ==
    IF n = 0 \/ left = {} THEN out
    ELSE LET first(x) == CHOOSE i \in DOMAIN texts :
                            texts[i] = x /\ \A j \in 1..(i - 1) : texts[j] # x
             best == CHOOSE x \in left : \A y \in left :
                        \/ CountOf(texts, x) > CountOf(texts, y)
                        \/ CountOf(texts, x) = CountOf(texts, y) /\ first(x) <= first(y)
         IN MostCommonLoop(texts, left \ { best }, n - 1,
                           Append(out, [name |-> best,
                                        mentions |-> CountOf(texts, best)]))
MostCommon(texts, n) ==
    MostCommonLoop(texts, { texts[i] : i \in DOMAIN texts }, n, <<>>)

Facts(top_people, top_organizations, top_locations) ==
    [top_people |-> top_people, top_organizations |-> top_organizations,
     top_locations |-> top_locations]

\* process_transcript: extract_key_facts on the entities of extract_entities
ExtractKeyFacts(entities) ==
    Facts(MostCommon(TextsOf(entities, "PERSON"), TopN),
          MostCommon(TextsOf(entities, "ORG"), TopN),
          MostCommon(TextsOf(entities, "GPE") \o TextsOf(entities, "LOC"), TopN))
ProcessTranscript(ents) == ExtractKeyFacts(ExtractEntities(ents))

\* ------------------------------------------------------------- the server

VARIABLES
    OLLAMA_API_KEY,  \* whether the key is configured (app.py:18-24)
    CACHE,           \* app.py CACHE: video id -> {'chunks': [...]}
    JOBS,            \* app.py JOBS: job id -> {'status', 'result'?, 'error'?}
    rag_lock,        \* app.py rag_lock: 0 when free, else the holding thread
    index,           \* the ChromaDB client: collection name -> collection
    th,              \* each thread's position and locals
    nreq,            \* requests accepted so far
    addLog,          \* history: each video id's add_video_to_index calls, in order
    fn               \* the function under test in SpecFn, with its arguments and result

vars == <<OLLAMA_API_KEY, CACHE, JOBS, rag_lock, index, th, nreq, addLog, fn>>

Handlers == 1..NumThreads
JobIds == 1..MaxJobs
\* the thread that submit_summary starts for job j
WorkerOf(j) == NumThreads + j
Workers == { WorkerOf(j) : j \in JobIds }
Threads == Handlers \cup Workers
IsWorker(t) == t \in Workers
JobOf(t) == t - NumThreads

Endpoints == { "summary", "ask", "extract", "insights", "submit", "status" }

\* summary, extract_entities and get_insights share one path to the index
\* (app.py:355-365, 503-507, 575-579) and differ in their prompt: "page"
\* stands for the three
Route(ep) == IF ep \in { "summary", "extract", "insights" } THEN "page" ELSE ep

NoQuestion == <<>>
Questions == { NoQuestion, <<"q">> }
GroundTruths == { GroundTruth(TRUE, <<>>), GroundTruth(FALSE, <<>>),
                  GroundTruth(FALSE, <<"g">>) }
\* the ground_truth values that requests to ask carry
AskGroundTruths == { GroundTruth(TRUE, <<>>), GroundTruth(FALSE, <<"g">>) }

NoMetrics ==
    [present |-> FALSE, retrieval_score |-> RZero, faithfulness |-> RZero,
     answer_relevance |-> RZero, coherence |-> RZero, correctness |-> PyNone,
     context_precision |-> RZero, context_recall |-> RZero, mrr |-> RZero]

\* the JSON envelope a handler returns
Response(error, data, metrics) ==
    [error |-> error, data |-> data, metrics |-> metrics]
NoResponse == Response(FALSE, "", NoMetrics)
ErrorResponse(data) == Response(TRUE, data, NoMetrics)

\* calls made to the generation, judge and embedding capabilities while
\* serving one request
Calls(gen, judge, embed) == [gen |-> gen, judge |-> judge, embed |-> embed]
NoCalls == Calls(0, 0, 0)

\* a thread: its position, the request's route and video id, the locals,
\* the number of chunks retrieval returned (-1 before retrieval), whether
\* the answer was generated, the envelope and the calls made
Job(status, result, error) ==
    [status |-> status, result |-> result, error |-> error]
\* what check_status read, before any poll
NoJob == Job("", "", "")

Thread(pc) ==
    [pc |-> pc, ep |-> "", vid |-> NoneId, transcript |-> NoTranscript,
     chunks |-> <<>>, nctx |-> 0 - 1, answered |-> FALSE,
     resp |-> NoResponse, calls |-> NoCalls, question |-> NoQuestion,
     job |-> 0, seen |-> NoJob]

\* what an earlier run of the process may have left in the persistent store
PriorCollections == { <<>>, <<Batch(<<"a", "_">>, MakeChunks(Transcript2))>> }

\* the harness variable while the server runs
NoCall == [name |-> "", n |-> 0, reply |-> ReplyNone,
           ground_truth |-> GroundTruth(TRUE, <<>>),
           coll |-> <<>>, backend |-> [fails |-> FALSE, distance |-> RZero],
           out |-> Metric(FALSE, Float(RZero), 0),
           triple |-> ZeroTriple, got |-> Ok(Retrieved(<<>>, RZero)),
           transcript_data |-> <<>>, chunks |-> <<>>, resp |-> NoResponse,
           answer |-> <<>>, context_text |-> <<>>, score |-> RZero,
           ents |-> <<>>, facts |-> Facts(<<>>, <<>>, <<>>)]

Init ==
    /\ OLLAMA_API_KEY \in BOOLEAN
    /\ CACHE = <<>>
    /\ JOBS = <<>>
    /\ rag_lock = 0
    /\ index \in [Collections -> PriorCollections]
    /\ th = [t \in Threads |-> IF IsWorker(t) THEN Thread("unborn")
                                ELSE Thread("idle")]
    /\ nreq = 0
    /\ addLog = [v \in VideoIds |-> <<>>]
    /\ fn = NoCall

\* ------------------------------------------------------ shared operations

Put(f, k, v) == [x \in DOMAIN f \cup {k} |-> IF x = k THEN v ELSE f[x]]

\* "with rag_lock:" may enter when no thread holds the lock
LockAlwaysAvailable(lock) == TRUE
LockAvailable(lock) == lock = 0

\* leaving "with rag_lock:", by return or by exception, releases the lock
ReleaseSkipped(lock) == lock
Release(lock) == 0

\* one add_video_to_index call, as the history keeps it: whether collection.add
\* ran, whether it raised, and collection.count() before and after the call
AddCall(ran, raised, before, after) ==
    [ran |-> ran, raised |-> raised, before |-> before, after |-> after]

\* the request's parameters and the locals are dead once the envelope is built
Forget(r) ==
    [r EXCEPT !.vid = NoneId, !.transcript = NoTranscript, !.chunks = <<>>,
              !.question = NoQuestion, !.job = 0]

\* the handler returns an error envelope: at a parameter or transcript check,
\* or from its "except Exception"; the worker's exception reaches its
\* except clause
Fail(r, data) ==
    IF r.ep = "job"
    THEN [r EXCEPT !.pc = "w_except", !.transcript = NoTranscript,
                   !.chunks = <<>>, !.resp = ErrorResponse(data)]
    ELSE [Forget(r) EXCEPT !.pc = "done", !.resp = ErrorResponse(data)]

\* where a handler goes once the video is known to be in CACHE
AfterIndex(ep) == IF ep = "ask" THEN "retrieve" ELSE "generate"

\* ---------------------------------------------------------------- requests

\* "if not video_id" (summary, submit_summary, extract_entities, get_insights)
\* and "if not video_id or not question" (ask)
MissingParamsVideoOnly(ep, video_id, question) == video_id = NoneId
MissingParams(ep, video_id, question) ==
    video_id = NoneId \/ (ep = "ask" /\ question = NoQuestion)

\* A request arrives at an idle handler thread: the route's parameter checks,
\* the OLLAMA_API_KEY check and the "video_id not in CACHE" test; submit_summary
\* creates the job and starts its thread; check_status reads the job.
StartRequest(t) ==
    /\ th[t].pc = "idle"
    /\ nreq < MaxRequests
    /\ nreq' = nreq + 1
    /\ \E ep \in Endpoints, video_id \in VideoIds \cup {NoneId},
          question \in Questions, job_id \in 0..MaxJobs :
        /\ ep # "ask" => question = NoQuestion
        /\ ep # "status" => job_id = 0
        /\ ep = "status" => video_id = NoneId
        /\ LET r == [Thread("done") EXCEPT !.ep = Route(ep), !.vid = video_id,
                                           !.question = question]
           IN IF ep = "status"
              THEN /\ JOBS' = JOBS
                   /\ th' = [th EXCEPT ![t] =
                        IF job_id \notin DOMAIN JOBS
                        THEN Fail(r, "Job not found")
                        ELSE [r EXCEPT !.pc = "read_result", !.job = job_id,
                                       !.seen.status = JOBS[job_id].status]]
              ELSE IF ep = "submit"
              THEN IF MissingParams(ep, video_id, question)
                   THEN /\ th' = [th EXCEPT ![t] = Fail(r, "Video ID missing")]
                        /\ JOBS' = JOBS
                   ELSE \E j \in JobIds :
                        /\ j \notin DOMAIN JOBS
                        /\ \A i \in JobIds : i < j => i \in DOMAIN JOBS
                        /\ JOBS' = Put(JOBS, j, Job("queued", "", ""))
                        /\ th' = [th EXCEPT
                                ![t] = [Forget(r) EXCEPT !.resp =
                                          Response(FALSE, "queued", NoMetrics)],
                                ![WorkerOf(j)] =
                                    [Thread("w_start") EXCEPT !.ep = "job",
                                                              !.vid = video_id]]
              ELSE /\ JOBS' = JOBS
                   /\ th' = [th EXCEPT ![t] =
                        IF MissingParams(ep, video_id, question)
                        THEN Fail(r, IF ep = "ask"
                                     THEN "Missing video_id or question"
                                     ELSE "Video ID missing")
                        ELSE IF ~OLLAMA_API_KEY
                        THEN Fail(r, "Server LLM not configured")
                        ELSE IF video_id \notin DOMAIN CACHE
                        THEN [r EXCEPT !.pc = "fetch"]
                        ELSE [r EXCEPT !.pc = AfterIndex(ep)]]
    /\ UNCHANGED <<OLLAMA_API_KEY, CACHE, rag_lock, index, addLog, fn>>

\* async_summarize_task begins: status 'processing', then the key check
WorkerStart(t) ==
    /\ IsWorker(t)
    /\ th[t].pc = "w_start"
    /\ JOBS' = [JOBS EXCEPT ![JobOf(t)].status = "processing"]
    /\ th' = [th EXCEPT ![t] =
                IF ~OLLAMA_API_KEY
                THEN Fail(th[t], "OLLAMA_API_KEY not configured.")
                ELSE [th[t] EXCEPT !.pc = "fetch"]]
    /\ UNCHANGED <<OLLAMA_API_KEY, CACHE, rag_lock, index, nreq, addLog, fn>>

\* "if not transcript" after get_transcript
TranscriptMissingIgnored(transcript) == FALSE
TranscriptMissing(transcript) == transcript = NoTranscript

\* get_transcript(video_id): the captions, or None. "Transcript not found"
\* stands for the route's own message ("Could not retrieve transcript (no
\* English captions?)", "Transcript not found. Please summarize first.",
\* "Transcript not found.") and the worker's ValueError("Could not retrieve
\* transcript.")
GetTranscript(t) ==
    /\ th[t].pc = "fetch"
    /\ \E transcript \in Transcripts \cup {NoTranscript} :
        th' = [th EXCEPT ![t] =
                IF TranscriptMissing(transcript)
                THEN Fail(th[t], "Transcript not found")
                ELSE [th[t] EXCEPT !.pc = "acquire", !.transcript = transcript]]
    /\ UNCHANGED <<OLLAMA_API_KEY, CACHE, JOBS, rag_lock, index, nreq, addLog, fn>>

\* -------------------------------------------------------- create_rag_index

\* "with rag_lock:" is entered and the chunks are built from the transcript
AcquireLock(t) ==
    /\ th[t].pc = "acquire"
    /\ LockAvailable(rag_lock)
    /\ rag_lock' = t
    /\ th' = [th EXCEPT ![t] = [th[t] EXCEPT
                !.pc = "count",
                !.chunks = MakeChunks(th[t].transcript)]]
    /\ UNCHANGED <<OLLAMA_API_KEY, CACHE, JOBS, index, nreq, addLog, fn>>

\* create_rag_index returned {'chunks': chunks}: a worker goes on to its
\* prompt, a handler to its CACHE write
Built(r) ==
    [r EXCEPT !.pc = IF r.ep = "job" THEN "generate" ELSE "built"]

\* add_video_to_index reads collection.count(); a populated collection makes
\* it return at once, and the with statement releases the lock
CheckCount(t) ==
    /\ th[t].pc = "count"
    /\ IF AlreadyPopulated(index[SafeName(th[t].vid)])
       THEN /\ addLog' = [addLog EXCEPT ![th[t].vid] = Append(@,
                            AddCall(FALSE, FALSE,
                                    CollectionCount(index[SafeName(th[t].vid)]),
                                    CollectionCount(index[SafeName(th[t].vid)])))]
            /\ rag_lock' = Release(rag_lock)
            /\ th' = [th EXCEPT ![t] = Built(th[t])]
       ELSE /\ addLog' = addLog
            /\ rag_lock' = rag_lock
            /\ th' = [th EXCEPT ![t].pc = "add"]
    /\ UNCHANGED <<OLLAMA_API_KEY, CACHE, JOBS, index, nreq, fn>>

\* collection.add embeds and stores the chunks; the lock is released
AddChunks(t) ==
    /\ th[t].pc = "add"
    /\ index' = [index EXCEPT ![SafeName(th[t].vid)] =
                    CollectionAdd(@, th[t].vid, th[t].chunks)]
    /\ addLog' = [addLog EXCEPT ![th[t].vid] = Append(@,
                    AddCall(TRUE, FALSE,
                            CollectionCount(index[SafeName(th[t].vid)]),
                            CollectionCount(index'[SafeName(th[t].vid)])))]
    /\ rag_lock' = Release(rag_lock)
    /\ th' = [th EXCEPT ![t] = Built(th[t])]
    /\ UNCHANGED <<OLLAMA_API_KEY, CACHE, JOBS, nreq, fn>>

\* add_video_to_index and create_rag_index have no try around collection.add:
\* its exception leaves both and reaches the caller's except clause
AddFailedSwallowed(r) == Built(r)
AddFailed(r) == Fail(r, "exception")

\* collection.add raises (the embedding model or the store fails): nothing is
\* stored, the with statement releases the lock, the exception propagates
AddRaises(t) ==
    /\ th[t].pc = "add"
    /\ addLog' = [addLog EXCEPT ![th[t].vid] = Append(@,
                    AddCall(TRUE, TRUE,
                            CollectionCount(index[SafeName(th[t].vid)]),
                            CollectionCount(index[SafeName(th[t].vid)])))]
    /\ rag_lock' = Release(rag_lock)
    /\ th' = [th EXCEPT ![t] = AddFailed(th[t])]
    /\ UNCHANGED <<OLLAMA_API_KEY, CACHE, JOBS, index, nreq, fn>>

\* "CACHE[video_id] = create_rag_index(video_id, transcript)"
StoreCache(t) ==
    /\ th[t].pc = "built"
    /\ CACHE' = Put(CACHE, th[t].vid, [chunks |-> th[t].chunks])
    /\ th' = [th EXCEPT ![t] = [th[t] EXCEPT !.pc = AfterIndex(th[t].ep),
                                 !.transcript = NoTranscript, !.chunks = <<>>]]
    /\ UNCHANGED <<OLLAMA_API_KEY, JOBS, rag_lock, index, nreq, addLog, fn>>

\* ---------------------------------------------------------------------- ask

RECURSIVE IntText(_)
IntText(n) ==
    LET d == CHOOSE c \in Digits : DigitVal(c) = n % 10
    IN IF n < 10 THEN <<d>> ELSE IntText(n \div 10) \o <<d>>

\* f"[Time: {int(c['start'])}s] {c['text']}"
TimeLine(c) ==
    <<"[", "T", "i", "m", "e", ":", " ">> \o IntText(c.start)
        \o <<"s", "]", " ">> \o c.text

\* "\n\n".join(...)
RECURSIVE ContextText(_)
ContextText(context_chunks) ==
    IF context_chunks = <<>> THEN <<>>
    ELSE IF Len(context_chunks) = 1 THEN TimeLine(context_chunks[1])
    ELSE TimeLine(context_chunks[1]) \o <<"\n", "\n">>
             \o ContextText(Tail(context_chunks))

\* what ollama_generate(prompt) does on one call of a handler
Generation(fails, text) == [fails |-> fails, text |-> text]
Answers == { <<"A", "b", "c", " ", "z">> }
Generations ==
    { Generation(TRUE, <<>>) } \cup { Generation(FALSE, a) : a \in Answers }

\* the behaviours of the vector store, the judge and the embedding model
\* that are tried inside ask
AskBackends == { [fails |-> TRUE, distance |-> RZero],
                 [fails |-> FALSE, distance |-> Rat(3, 2)] }
AskCoherenceReplies == { ReplyRaise, ReplyText(<<"4">>) }
AskCorrectnessReplies == { ReplyText(<<"3">>) }
AskRetrievalReplies ==
    { ReplyRaise, ReplyDict(JsonObject(RelList(<<1>>), "true")) }
AskEmbeddings ==
    { Embedding(TRUE, <<0, 0>>, <<0, 0>>), Embedding(FALSE, <<1, 0>>, <<3, 4>>) }

\* "if not context_chunks"
NoContextIgnored(context_chunks) == FALSE
NoContext(context_chunks) == context_chunks = <<>>

\* the metrics dict of ask
Metrics(top_score, faithfulness, answer_relevance, coherence, correctness, retrieval_stats) ==
    [present |-> TRUE, retrieval_score |-> top_score,
     faithfulness |-> faithfulness, answer_relevance |-> answer_relevance,
     coherence |-> coherence.num, correctness |-> correctness,
     context_precision |-> retrieval_stats.context_precision,
     context_recall |-> retrieval_stats.context_recall_proxy,
     mrr |-> retrieval_stats.mrr]

\* ask from "answer = ollama_generate(prompt)" to its return: the answer, the
\* five metrics in the order the code computes them, the envelope
AnswerAndEvaluate(r, ctx, ground_truth, gen, embedding, reply1, reply2, reply3) ==
    LET context_chunks == ctx.results
        context_text == ContextText(context_chunks)
        faithfulness == CalculateFaithfulness(gen.text, context_text)
        answer_relevance == CalculateCosineSimilarity(embedding)
        coherence == CalculateCoherence(reply1)
        correctness == CalculateCorrectness(ground_truth, reply2)
        retrieval_stats == EvaluateRetrieval(Len(context_chunks), reply3)
        g == [r EXCEPT !.calls.gen = @ + 1]
        a == [g EXCEPT !.answered = TRUE, !.calls.embed = @ + 1]
    IN IF gen.fails THEN Fail(g, "exception")
       ELSE IF answer_relevance.exc THEN Fail(a, "exception")
       ELSE IF coherence.exc
       THEN Fail([a EXCEPT !.calls.judge = @ + coherence.calls], "exception")
       ELSE IF correctness.exc
       THEN Fail([a EXCEPT !.calls.judge =
                     @ + coherence.calls + correctness.calls], "exception")
       ELSE IF retrieval_stats.exc
       THEN Fail([a EXCEPT !.calls.judge = @ + coherence.calls
                     + correctness.calls + retrieval_stats.calls], "exception")
       ELSE [Forget(a) EXCEPT
               !.pc = "done",
               !.calls.judge = @ + coherence.calls + correctness.calls
                                 + retrieval_stats.calls,
               !.resp = Response(FALSE, "answer",
                           Metrics(ctx.top_score, faithfulness,
                                   answer_relevance.val, coherence.val,
                                   correctness.val, retrieval_stats.val))]

\* ask after the index is ensured: retrieve_context(video_id, question,
\* top_k=5), the empty-result reply, else the answer and its metrics; the
\* request's ground_truth is read where it is first used
Retrieve(t) ==
    /\ th[t].pc = "retrieve"
    /\ \E backend \in AskBackends, gen \in Generations,
          ground_truth \in AskGroundTruths,
          embedding \in AskEmbeddings, reply1 \in AskCoherenceReplies,
          reply2 \in AskCorrectnessReplies, reply3 \in AskRetrievalReplies :
        LET got == RetrieveContext(index[SafeName(th[t].vid)], TopK, backend)
            r == [th[t] EXCEPT !.nctx = Len(got.val.results)]
        IN th' = [th EXCEPT ![t] =
                    IF got.exc THEN Fail(th[t], "exception")
                    ELSE IF NoContext(got.val.results)
                    THEN [Forget(r) EXCEPT !.pc = "done",
                             !.resp = Response(FALSE, "no_info", NoMetrics)]
                    ELSE AnswerAndEvaluate(r, got.val, ground_truth, gen,
                                           embedding, reply1, reply2, reply3)]
    /\ UNCHANGED <<OLLAMA_API_KEY, CACHE, JOBS, rag_lock, index, nreq, addLog, fn>>

\* ------------------------------------- summary, extract, insights, the job

\* the prompt is built (a handler reads CACHE[video_id]['chunks'], the worker
\* its transcript) and ollama_generate is called
Generate(t) ==
    /\ th[t].pc = "generate"
    /\ \E fails \in BOOLEAN :
        LET r == [th[t] EXCEPT !.calls.gen = @ + 1]
        IN th' = [th EXCEPT ![t] =
                    IF r.ep # "job" /\ r.vid \notin DOMAIN CACHE
                    THEN Fail(th[t], "exception")
                    ELSE IF fails THEN Fail(r, "exception")
                    ELSE IF r.ep = "job"
                    THEN [r EXCEPT !.pc = "w_complete",
                                   !.transcript = NoTranscript, !.chunks = <<>>]
                    ELSE [Forget(r) EXCEPT !.pc = "done",
                             !.resp = Response(FALSE, "generated", NoMetrics)]]
    /\ UNCHANGED <<OLLAMA_API_KEY, CACHE, JOBS, rag_lock, index, nreq, addLog, fn>>

\* "JOBS[job_id]['status'] = 'completed'"
WorkerSetCompleted(t) ==
    /\ th[t].pc = "w_complete"
    /\ JOBS' = [JOBS EXCEPT ![JobOf(t)].status = "completed"]
    /\ th' = [th EXCEPT ![t].pc = "w_result"]
    /\ UNCHANGED <<OLLAMA_API_KEY, CACHE, rag_lock, index, nreq, addLog, fn>>

\* "JOBS[job_id]['result'] = response_text": a dict store, which does not
\* raise; were it to raise, a completed job would reach the except clause
WorkerSetResultRaises(t) ==
    /\ th[t].pc = "w_result"
    /\ th' = [th EXCEPT ![t] = Fail(th[t], "exception")]
    /\ UNCHANGED <<OLLAMA_API_KEY, CACHE, JOBS, rag_lock, index, nreq, addLog, fn>>
WorkerSetResult(t) ==
    /\ th[t].pc = "w_result"
    /\ JOBS' = [JOBS EXCEPT ![JobOf(t)].result = "generated"]
    /\ th' = [th EXCEPT ![t].pc = "w_end"]
    /\ UNCHANGED <<OLLAMA_API_KEY, CACHE, rag_lock, index, nreq, addLog, fn>>

\* the worker's except clause: "JOBS[job_id]['status'] = 'failed'"
WorkerSetFailed(t) ==
    /\ th[t].pc = "w_except"
    /\ JOBS' = [JOBS EXCEPT ![JobOf(t)].status = "failed"]
    /\ th' = [th EXCEPT ![t].pc = "w_error"]
    /\ UNCHANGED <<OLLAMA_API_KEY, CACHE, rag_lock, index, nreq, addLog, fn>>

\* "JOBS[job_id]['error'] = str(e)"
WorkerSetError(t) ==
    /\ th[t].pc = "w_error"
    /\ JOBS' = [JOBS EXCEPT ![JobOf(t)].error = th[t].resp.data]
    /\ th' = [th EXCEPT ![t].pc = "w_end"]
    /\ UNCHANGED <<OLLAMA_API_KEY, CACHE, rag_lock, index, nreq, addLog, fn>>

\* check_status, second read: "job.get('result')"
ReadResult(t) ==
    /\ th[t].pc = "read_result"
    /\ th' = [th EXCEPT ![t] = [th[t] EXCEPT
                !.pc = "read_error",
                !.seen.result = JOBS[th[t].job].result]]
    /\ UNCHANGED <<OLLAMA_API_KEY, CACHE, JOBS, rag_lock, index, nreq, addLog, fn>>

\* check_status, third read: "job.get('error')", and the envelope
ReadError(t) ==
    /\ th[t].pc = "read_error"
    /\ th' = [th EXCEPT ![t] = [Forget(th[t]) EXCEPT
                !.pc = "done",
                !.seen.error = JOBS[th[t].job].error,
                !.resp = Response(FALSE, "status", NoMetrics)]]
    /\ UNCHANGED <<OLLAMA_API_KEY, CACHE, JOBS, rag_lock, index, nreq, addLog, fn>>

\* the handler returns its envelope; the thread takes the next request
Respond(t) ==
    /\ th[t].pc = "done"
    /\ th' = [th EXCEPT ![t] = Thread("idle")]
    /\ UNCHANGED <<OLLAMA_API_KEY, CACHE, JOBS, rag_lock, index, nreq, addLog, fn>>

Next ==
    \E t \in Threads :
        \/ StartRequest(t)
        \/ WorkerStart(t)
        \/ GetTranscript(t)
        \/ AcquireLock(t)
        \/ CheckCount(t)
        \/ AddChunks(t)
        \/ AddRaises(t)
        \/ StoreCache(t)
        \/ Retrieve(t)
        \/ Generate(t)
        \/ WorkerSetCompleted(t)
        \/ WorkerSetResult(t)
        \/ WorkerSetFailed(t)
        \/ WorkerSetError(t)
        \/ ReadResult(t)
        \/ ReadError(t)
        \/ Respond(t)

Spec == Init /\ [][Next]_vars

\* what a thread does by itself once it has a request or a job: every step
\* but the arrival of a request
Run(t) ==
    \/ WorkerStart(t)
    \/ GetTranscript(t)
    \/ AcquireLock(t)
    \/ CheckCount(t)
    \/ AddChunks(t)
    \/ AddRaises(t)
    \/ StoreCache(t)
    \/ Retrieve(t)
    \/ Generate(t)
    \/ WorkerSetCompleted(t)
    \/ WorkerSetResult(t)
    \/ WorkerSetFailed(t)
    \/ WorkerSetError(t)
    \/ ReadResult(t)
    \/ ReadError(t)
    \/ Respond(t)

\* the server with its threads scheduled: a thread that can run does run, and
\* every external call returns or raises
LiveSpec == Spec /\ \A t \in Threads : WF_vars(Run(t))

\* ------------------------------------------------- properties of the server

\* the add_video_to_index calls for video id v that ran collection.add, and
\* those whose collection.add stored the chunks
RanAdd(v) == { i \in DOMAIN addLog[v] : addLog[v][i].ran }
StoredAdd(v) == { i \in DOMAIN addLog[v] : addLog[v][i].ran /\ ~addLog[v][i].raised }

\* C1 as stated: of the add_video_to_index calls made in sequence for one
\* video id only the first ever runs collection.add; every later call leaves
\* the collection as it found it.
C1_OnlyFirstCallAdds ==
    \A v \in VideoIds : \A j \in 2..Len(addLog[v]) :
        /\ ~addLog[v][j].ran
        /\ addLog[v][j].after = addLog[v][j].before

\* C1 amended: once a call of add_video_to_index for a video id has returned
\* without raising, no later call for that video id runs collection.add, and
\* each later call leaves the collection, which is not empty, as it found it.
C1_NoAddAfterCompletedCall ==
    \A v \in VideoIds : \A i, j \in DOMAIN addLog[v] :
        (i < j /\ ~addLog[v][i].raised) =>
            /\ ~addLog[v][j].ran
            /\ addLog[v][j].after = addLog[v][j].before
            /\ addLog[v][j].before > 0

\* C1 witness: a video id was indexed by one call, and a second call that
\* passed other chunks has returned without adding them.
C1_SecondCallSkipped ==
    \E t \in Threads :
        /\ th[t].pc \in { "built", "generate" }
        /\ th[t].vid \in VideoIds
        /\ Len(addLog[th[t].vid]) = 2
        /\ addLog[th[t].vid][1].ran /\ ~addLog[th[t].vid][1].raised
        /\ ~addLog[th[t].vid][2].ran
        /\ th[t].chunks # <<>>
        /\ th[t].chunks # Documents(index[SafeName(th[t].vid)])

\* C2 as stated: under every interleaving collection.add is executed at most
\* once per video id.
C2_AddExecutedAtMostOnce ==
    \A v \in VideoIds : Cardinality(RanAdd(v)) <= 1

\* C2 amended: a thread between the count() test and the end of collection.add
\* holds rag_lock; collection.add runs only on a collection the same critical
\* section found empty; at most one collection.add per video id stores chunks,
\* and no collection ever holds more than one batch of chunks.
C2_CheckAndAddInOneCriticalSection ==
    /\ \A t \in Threads : th[t].pc \in { "count", "add" } => rag_lock = t
    /\ \A v \in VideoIds : \A i \in RanAdd(v) : addLog[v][i].before = 0
    /\ \A v \in VideoIds : Cardinality(StoredAdd(v)) <= 1
    /\ \A c \in Collections : Len(index[c]) <= 1

\* C2 witness: two requests for one video id both passed the CACHE test; one
\* has stored the chunks and not yet written CACHE, the other is inside the
\* critical section about to test count().
C2_RaceOnUncachedVideo ==
    \E t, u \in Threads :
        /\ t # u
        /\ th[t].vid \in VideoIds /\ th[t].vid = th[u].vid
        /\ th[t].vid \notin DOMAIN CACHE
        /\ th[t].pc \in { "built", "generate" }
        /\ StoredAdd(th[t].vid) # {}
        /\ th[u].pc = "count"

\* C3: a request of ask is at retrieve_context only when its video id is in
\* CACHE, the collection of that video id holds chunks, and the request is
\* outside the critical section.
C3_RetrievalAfterBuild ==
    \A t \in Threads :
        th[t].pc = "retrieve" =>
            /\ th[t].vid \in DOMAIN CACHE
            /\ CollectionCount(index[SafeName(th[t].vid)]) > 0
            /\ rag_lock # t

\* C3 witness: one request is about to retrieve while another thread is inside
\* create_rag_index for the same video id.
C3_RetrieveWhileOtherBuilds ==
    \E t, u \in Threads :
        /\ t # u
        /\ th[t].pc = "retrieve"
        /\ th[u].pc \in { "acquire", "count" }
        /\ th[u].vid = th[t].vid

\* C4 as stated: once ask has generated the answer, the response is never an
\* error and carries the metrics.
C4_EvaluationNeverFailsAsk ==
    \A t \in Threads :
        (th[t].pc = "done" /\ th[t].answered) =>
            /\ ~th[t].resp.error
            /\ th[t].resp.data = "answer"
            /\ th[t].resp.metrics.present

StatusMoves ==
    { <<"queued", "processing">>, <<"processing", "completed">>,
      <<"processing", "failed">> }

\* C16: over any step every job record stays in JOBS; its status stays or
\* moves queued -> processing, processing -> completed or processing ->
\* failed, so completed and failed are never left and never both visited; and
\* a record changes only in a step of the job's own worker thread.
C16_JobStatusLifeCycle ==
    [][\A j \in DOMAIN JOBS :
        /\ j \in DOMAIN JOBS'
        /\ \/ JOBS'[j].status = JOBS[j].status
           \/ <<JOBS[j].status, JOBS'[j].status>> \in StatusMoves
        /\ JOBS'[j] # JOBS[j] =>
              /\ th'[WorkerOf(j)] # th[WorkerOf(j)]
              /\ \A t \in Threads \ {WorkerOf(j)} : th'[t] = th[t]]_vars

\* C16 happens: a job finished completed with its result, after a worker ran
C16_JobCompleted ==
    \E j \in DOMAIN JOBS :
        /\ JOBS[j] = Job("completed", "generated", "")
        /\ th[WorkerOf(j)].pc = "w_end"

\* ------------------------------------------------------ rejected requests

MissingMessages == { "Video ID missing", "Missing video_id or question" }

\* the thread t answered its request in the step that received it, with one
\* of the two "missing" envelopes
RejectedAtOnce(t) ==
    /\ th[t].pc = "idle"
    /\ th'[t].pc = "done"
    /\ th'[t].resp.data \in MissingMessages

\* C17: a request that is taken past its parameter checks (its handler is at
\* work, or a job was created for it) has its video id, and its question when
\* it is an ask; and the step that rejects a request answers with an error
\* envelope, having made no external call, and changes neither CACHE nor JOBS
\* nor the index nor any other thread.
C17_MissingParameterRejected ==
    [][/\ \A t \in Threads :
            th'[t].pc \notin { "idle", "done", "unborn", "w_end" } =>
                /\ th'[t].vid # NoneId \/ th'[t].ep = "status"
                /\ th'[t].ep = "ask" => th'[t].question # NoQuestion
       /\ \A t \in Handlers :
            RejectedAtOnce(t) =>
                /\ th'[t].resp = ErrorResponse(th'[t].resp.data)
                /\ th'[t].calls = NoCalls
                /\ CACHE' = CACHE /\ JOBS' = JOBS /\ index' = index
                /\ addLog' = addLog
                /\ \A u \in Threads \ {t} : th'[u] = th[u]]_vars

\* C17 happens: an ask without its question was rejected while nothing had
\* been stored
C17_AskRejected ==
    \E t \in Handlers :
        /\ th[t].pc = "done"
        /\ th[t].ep = "ask"
        /\ th[t].resp = ErrorResponse("Missing video_id or question")
        /\ CACHE = <<>> /\ JOBS = <<>>

\* ------------------------------------------------------ missing transcript

\* C18: the step in which get_transcript answers a handler either keeps a
\* transcript and goes on, or ends the request with the error envelope
\* "Transcript not found", no generation, embedding or judge call made, CACHE
\* and the index as they were; for a worker the other branch is the except
\* clause, and a worker that ended through its except clause left its job
\* failed with its error message.
C18_TranscriptMissing ==
    [][/\ \A t \in Threads :
            th[t].pc = "fetch" /\ th'[t] # th[t] =>
                \/ /\ th'[t].pc = "acquire"
                   /\ th'[t].transcript \in Transcripts
                \/ /\ th'[t].pc = IF IsWorker(t) THEN "w_except" ELSE "done"
                   /\ th'[t].resp = ErrorResponse("Transcript not found")
                   /\ th'[t].calls = NoCalls
                   /\ CACHE' = CACHE /\ index' = index /\ addLog' = addLog
                   /\ JOBS' = JOBS
       /\ \A t \in Workers :
            th'[t].pc = "w_end" /\ th'[t].resp.error =>
                JOBS'[JobOf(t)] = Job("failed", "", th'[t].resp.data)]_vars

\* C18 happens: a handler answered "Transcript not found" with nothing
\* cached, and a worker ended its job failed with that message
C18_TranscriptNotFound ==
    /\ \E t \in Handlers :
        /\ th[t].pc = "done"
        /\ th[t].resp = ErrorResponse("Transcript not found")
        /\ CACHE = <<>>
    /\ \E j \in DOMAIN JOBS :
        /\ JOBS[j] = Job("failed", "", "Transcript not found")
        /\ th[WorkerOf(j)].pc = "w_end"

\* ------------------------------------------------------ CACHE and the index

\* the add_video_to_index calls for video id v that returned without raising
\* and left the collection populated
ReturnedAdd(v) ==
    { i \in DOMAIN addLog[v] : ~addLog[v][i].raised /\ addLog[v][i].after > 0 }

\* C21: every video id in CACHE has a non-empty index collection, and a step
\* that changes CACHE adds the one video id of a handler for which
\* create_rag_index has returned, an add_video_to_index call for that id having
\* returned without raising, and keeps every other entry.
C21_CachedVideoIsIndexed ==
    /\ [](\A v \in DOMAIN CACHE : CollectionCount(index[SafeName(v)]) > 0)
    /\ [][CACHE' # CACHE =>
            \E t \in Handlers :
                /\ th[t].pc = "built"
                /\ ReturnedAdd(th[t].vid) # {}
                /\ CACHE' = Put(CACHE, th[t].vid, [chunks |-> th[t].chunks])
                /\ th[t].chunks # <<>>]_vars

\* C21 happens: a video id is in CACHE after an index build for it failed
C21_CachedAfterFailedBuild ==
    \E v \in DOMAIN CACHE :
        \E i \in DOMAIN addLog[v] : addLog[v][i].raised

\* ------------------------------------------------------ termination

Terminal == { "completed", "failed" }

\* C22: rag_lock is held only by a thread inside create_rag_index (between
\* entering "with rag_lock:" and leaving add_video_to_index), so every exit
\* has released it; no thread waits forever to enter "with rag_lock:"; and
\* every job in JOBS eventually has status completed or failed.
C22_EveryJobEnds ==
    /\ [](\A t \in Threads : rag_lock = t <=> th[t].pc \in { "count", "add" })
    /\ \A t \in Threads : []<>(th[t].pc # "acquire")
    /\ \A j \in JobIds :
        (j \in DOMAIN JOBS) ~> (j \in DOMAIN JOBS /\ JOBS[j].status \in Terminal)

\* C22 happens: the index build of a job's worker raised, the job ended
\* failed, and a handler holds the lock afterwards
C22_FailedBuildReleasedLock ==
    \E j \in DOMAIN JOBS :
        /\ JOBS[j].status = "failed"
        /\ \E i \in DOMAIN addLog[th[WorkerOf(j)].vid] :
                addLog[th[WorkerOf(j)].vid][i].raised
        /\ rag_lock \in Handlers

\* ------------------------------------------------------ polling

\* C20: a poll that read status completed read the result too, and a poll
\* that read status failed read the error message too.
C20_PollSeesWholeJob ==
    \A t \in Handlers :
        th[t].pc = "done" /\ th[t].ep = "status" /\ ~th[t].resp.error =>
            /\ th[t].seen.status = "completed" => th[t].seen.result # ""
            /\ th[t].seen.status = "failed" => th[t].seen.error # ""


\* ------------------------------------------- the functions taken one by one

SeqsUpTo(S, n) == UNION { [1..k -> S] : k \in 0..n }

\* replies of the judge to a rating prompt
RatingChars == { "0", "3", "5", "7", "-", " ", "x" }
RatingReplies ==
    { ReplyRaise, ReplyNone, ReplyDict(JsonNumber) }
        \cup { ReplyText(s) : s \in SeqsUpTo(RatingChars, MaxRespLen) }

\* replies of the judge to the retrieval prompt: indices may fall outside
\* 1..n, repeat, or be missing
IndexLists == SeqsUpTo((0 - 1)..(MaxContexts + 1), MaxRelLen)
JsonValues ==
    { JsonArray, JsonNumber }
        \cup { JsonObject(rel, suf) :
                 rel \in { RelAbsent, RelNull } \cup { RelList(l) : l \in IndexLists },
                 suf \in { "absent", "true", "false" } }
Wraps == { <<>>, <<Fence>>, <<Prose>> }
TokenStrings ==
    Wraps \cup { pre \o <<JsonText(v)>> \o post :
                   pre \in Wraps, post \in Wraps, v \in JsonValues }
RetrievalReplies ==
    { ReplyRaise, ReplyNone }
        \cup { ReplyDict(v) : v \in JsonValues }
        \cup { ReplyTokens(ts) : ts \in TokenStrings }

\* collections retrieve_context may meet: never built, or built once
StoredCollections ==
    { <<>> } \cup { <<Batch(<<"a", "-">>, MakeChunks(tr))>> : tr \in Transcripts }

\* transcripts handed to the chunker: texts with and without words, of several
\* lengths, with start times in any order
SegTexts == { <<>>, <<" ">>, <<"a">>, <<"d", "d">>, <<"b", " ", "c">>,
              <<"e", "e", "e">> }
SegStarts == { 0, 2, 5 }
Segments == { Seg(text, start) : text \in SegTexts, start \in SegStarts }
ChunkerTranscripts == SeqsUpTo(Segments, MaxSegs)

InitFn ==
    /\ OLLAMA_API_KEY = TRUE
    /\ CACHE = <<>>
    /\ JOBS = <<>>
    /\ rag_lock = 0
    /\ index = [c \in Collections |-> <<>>]
    /\ th = [t \in Threads |-> IF IsWorker(t) THEN Thread("unborn")
                                ELSE Thread("idle")]
    /\ nreq = 0
    /\ addLog = [v \in VideoIds |-> <<>>]
    /\ fn = NoCall

server == <<OLLAMA_API_KEY, CACHE, JOBS, rag_lock, index, th, nreq, addLog>>

CallCoherence ==
    /\ fn = NoCall
    /\ \E reply \in RatingReplies :
        fn' = [NoCall EXCEPT !.name = "calculate_coherence", !.reply = reply,
                             !.out = CalculateCoherence(reply)]
    /\ UNCHANGED server

CallCorrectness ==
    /\ fn = NoCall
    /\ \E ground_truth \in GroundTruths, reply \in RatingReplies :
        fn' = [NoCall EXCEPT !.name = "calculate_correctness", !.reply = reply,
                             !.ground_truth = ground_truth,
                             !.out = CalculateCorrectness(ground_truth, reply)]
    /\ UNCHANGED server

CallEvaluateRetrieval ==
    /\ fn = NoCall
    /\ \E n \in 0..MaxContexts, reply \in RetrievalReplies :
        LET m == EvaluateRetrieval(n, reply)
        IN fn' = [NoCall EXCEPT !.name = "evaluate_retrieval", !.n = n,
                                !.reply = reply,
                                !.out = Metric(m.exc, Float(RZero), m.calls),
                                !.triple = m.val]
    /\ UNCHANGED server

CallRetrieveContext ==
    /\ fn = NoCall
    /\ \E coll \in StoredCollections, backend \in Backends :
        fn' = [NoCall EXCEPT !.name = "retrieve_context", !.coll = coll,
                             !.backend = backend,
                             !.got = RetrieveContext(coll, TopK, backend)]
    /\ UNCHANGED server

\* the chunking of create_rag_index applied to one transcript
CallMakeChunks ==
    /\ fn = NoCall
    /\ \E transcript_data \in ChunkerTranscripts :
        fn' = [NoCall EXCEPT !.name = "create_rag_index",
                             !.transcript_data = transcript_data,
                             !.chunks = MakeChunks(transcript_data)]
    /\ UNCHANGED server

\* ask from the generation of the answer to its envelope, for the chunks
\* retrieved from a built collection
CallAnswerAndEvaluate ==
    /\ fn = NoCall
    /\ \E ground_truth \in GroundTruths, gen \in Generations,
          embedding \in AskEmbeddings, reply1 \in AskCoherenceReplies,
          reply2 \in { ReplyRaise, ReplyText(<<"3">>), ReplyText(<<"x">>) },
          reply3 \in AskRetrievalReplies, coll \in StoredCollections \ { <<>> } :
        LET ctx == RetrieveContext(coll, TopK, [fails |-> FALSE, distance |-> Rat(1, 4)]).val
            r == [Thread("retrieve") EXCEPT !.ep = "ask", !.nctx = Len(ctx.results)]
        IN fn' = [NoCall EXCEPT
                    !.name = "ask", !.ground_truth = ground_truth,
                    !.reply = reply2, !.coll = coll,
                    !.resp = AnswerAndEvaluate(r, ctx, ground_truth, gen, embedding,
                                               reply1, reply2, reply3).resp]
    /\ UNCHANGED server

\* answers and contexts handed to calculate_faithfulness
FaithAnswers == SeqsUpTo({ "A", "b", " " }, MaxTextLen)
FaithContexts == SeqsUpTo({ "a", "B", " " }, MaxTextLen)

CallFaithfulness ==
    /\ fn = NoCall
    /\ \E answer \in FaithAnswers, context_text \in FaithContexts :
        fn' = [NoCall EXCEPT !.name = "calculate_faithfulness",
                             !.answer = answer, !.context_text = context_text,
                             !.score = CalculateFaithfulness(answer, context_text)]
    /\ UNCHANGED server

\* spans the NER model may recognize: a name twice in one case, once in
\* another, and one text under two location labels
NerSpans == { Span("PERSON", <<"A">>), Span("PERSON", <<"a">>),
              Span("PERSON", <<"B">>), Span("ORG", <<"A">>),
              Span("GPE", <<"R">>), Span("LOC", <<"R">>) }

CallProcessTranscript ==
    /\ fn = NoCall
    /\ \E ents \in SeqsUpTo(NerSpans, MaxSpans) :
        fn' = [NoCall EXCEPT !.name = "process_transcript", !.ents = ents,
                             !.facts = ProcessTranscript(ents)]
    /\ UNCHANGED server

NextFn ==
    \/ CallCoherence
    \/ CallCorrectness
    \/ CallEvaluateRetrieval
    \/ CallRetrieveContext
    \/ CallMakeChunks
    \/ CallAnswerAndEvaluate
    \/ CallFaithfulness
    \/ CallProcessTranscript

SpecFn == InitFn /\ [][NextFn]_vars

\* ---------------------------------------------- properties of the functions

\* the smallest member of a non-empty set of integers
Least(S) == CHOOSE m \in S : \A x \in S : m <= x

\* a judge result over n chunks as the prompt asks for it: an object whose
\* relevant_chunks lists distinct indices of 1..n and whose sufficient is a
\* boolean
WellFormed(n, v) ==
    /\ v.kind = "object"
    /\ v.rel.p = "list"
    /\ \A i \in DOMAIN v.rel.l : v.rel.l[i] \in 1..n
    /\ \A i, j \in DOMAIN v.rel.l : i # j => v.rel.l[i] # v.rel.l[j]
    /\ v.suf \in { "true", "false" }

\* the triple that the formulas of the retrieval metric give for v
ExpectedTriple(n, v) ==
    LET S == { v.rel.l[i] : i \in DOMAIN v.rel.l }
    IN Triple(Rat(Cardinality(S), n),
              IF S = {} THEN RZero ELSE Rat(1, Least(S)),
              IF v.suf = "true" THEN ROne ELSE RHalf)

SameTriple(a, b) ==
    /\ RatEq(a.context_precision, b.context_precision)
    /\ RatEq(a.mrr, b.mrr)
    /\ RatEq(a.context_recall_proxy, b.context_recall_proxy)

\* the reply carries v in one of the four shapes: structured data, a clean
\* JSON string, a fenced JSON string, JSON inside prose
Carries(reply, v) ==
    \/ reply = ReplyDict(v)
    \/ /\ reply.kind = "tokens"
       /\ \/ \E pre, post \in { <<>>, <<Fence>> } :
                reply.tokens = pre \o <<JsonText(v)>> \o post
          \/ \E pre, post \in { <<>>, <<Prose>> } :
                reply.tokens = pre \o <<JsonText(v)>> \o post

\* an optional sign and decimal digits
IsIntegerToken(tok) ==
    LET body == IF tok[1] \in { "-", "+" } THEN Tail(tok) ELSE tok
    IN body # <<>> /\ \A k \in DOMAIN body : body[k] \in Digits

\* the first whitespace-delimited token of the text is an integer
StartsWithInteger(s) ==
    \E i \in DOMAIN s : \E j \in i..Len(s) :
        /\ \A k \in 1..(i - 1) : IsSpace(s[k])
        /\ \A k \in i..j : ~IsSpace(s[k])
        /\ j = Len(s) \/ IsSpace(s[j + 1])
        /\ IsIntegerToken(SubSeq(s, i, j))

ParseableRating(reply) == reply.kind = "text" /\ StartsWithInteger(reply.text)
ParseableRetrieval(reply) ==
    \/ reply.kind = "dict" /\ reply.obj.kind = "object"
    \/ /\ reply.kind = "tokens"
       /\ \E v \in JsonValues : v.kind = "object" /\ reply.tokens = <<JsonText(v)>>

\* C6: retrieve_context on a collection that is empty (or was never built), or
\* with a backend whose query fails, returns no chunks and top score 0.0 and
\* does not raise.
C6_EmptyIndexRetrievesNothing ==
    (fn.name = "retrieve_context" /\ (fn.coll = <<>> \/ fn.backend.fails)) =>
        /\ ~fn.got.exc
        /\ fn.got.val.results = <<>>
        /\ fn.got.val.top_score = RZero

\* C6 witness: retrieve_context has returned for a built collection whose
\* backend query failed.
C6_QueryFailedOnBuiltIndex ==
    /\ fn.name = "retrieve_context"
    /\ fn.backend.fails
    /\ CollectionCount(fn.coll) > 0
    /\ fn.got = Ok(Retrieved(<<>>, RZero))

\* C7 as stated: whatever the judge replies and whatever distance the backend
\* reports, coherence, correctness when present, context_precision,
\* context_recall_proxy, mrr and retrieval_score all lie in [0,1].
C7_EveryScoreInUnitInterval ==
    /\ fn.name = "calculate_coherence" => InUnit(fn.out.val.num)
    /\ (fn.name = "calculate_correctness" /\ ~fn.out.val.none) =>
            InUnit(fn.out.val.num)
    /\ fn.name = "evaluate_retrieval" =>
            /\ InUnit(fn.triple.context_precision)
            /\ InUnit(fn.triple.context_recall_proxy)
            /\ InUnit(fn.triple.mrr)
    /\ fn.name = "retrieve_context" => InUnit(fn.got.val.top_score)

\* C8 as stated: a well-formed judge result gives the same precision, MRR and
\* recall proxy, none of them zeroed, in each of the four shapes the reply may
\* carry it in.
C8_FourShapesParseAlike ==
    (fn.name = "evaluate_retrieval" /\ fn.n > 0) =>
        \A v \in JsonValues :
            (WellFormed(fn.n, v) /\ Carries(fn.reply, v)) =>
                /\ fn.triple # ZeroTriple
                /\ SameTriple(fn.triple, ExpectedTriple(fn.n, v))

\* C9: calculate_coherence, calculate_correctness and evaluate_retrieval never
\* raise; when the judge call fails or its reply cannot be parsed, coherence is
\* 0.0, correctness with a ground truth is 0.0 and the retrieval triple is
\* zeroed; with no chunks the triple is zeroed and the judge is not called.
C9_JudgedMetricsFailSoft ==
    /\ fn.name \in { "calculate_coherence", "calculate_correctness",
                     "evaluate_retrieval" } => ~fn.out.exc
    /\ (fn.name = "calculate_coherence" /\ ~ParseableRating(fn.reply)) =>
            fn.out.val = Float(RZero)
    /\ (fn.name = "calculate_correctness" /\ Truthy(fn.ground_truth)
            /\ ~ParseableRating(fn.reply)) =>
            fn.out.val = Float(RZero)
    /\ (fn.name = "evaluate_retrieval" /\ fn.n > 0
            /\ ~ParseableRetrieval(fn.reply)) =>
            fn.triple = ZeroTriple
    /\ (fn.name = "evaluate_retrieval" /\ fn.n = 0) =>
            fn.triple = ZeroTriple /\ fn.out.calls = 0

\* C9 witness: evaluate_retrieval has returned the zeroed triple for chunks
\* whose judge call raised.
C9_JudgeCallFailed ==
    /\ fn.name = "evaluate_retrieval"
    /\ fn.n > 0
    /\ fn.reply = ReplyRaise
    /\ fn.out.calls = 1
    /\ fn.triple = ZeroTriple

\* C10: for a well-formed judge result over n chunks, given as structured data
\* or as a clean JSON string, mrr is 1 over the smallest relevant index (1.0
\* with index 1 relevant, 0.5 with index 2 and not 1, 0.0 with none),
\* context_precision is the number of relevant indices over n, and
\* context_recall_proxy is 1.0 if sufficient and 0.5 otherwise.
C10_RetrievalFormulas ==
    (fn.name = "evaluate_retrieval" /\ fn.n > 0) =>
        \A v \in JsonValues :
            (/\ WellFormed(fn.n, v)
             /\ fn.reply \in { ReplyDict(v), ReplyTokens(<<JsonText(v)>>) }) =>
                LET S == { v.rel.l[i] : i \in DOMAIN v.rel.l }
                IN /\ S = {} => fn.triple.mrr = RZero
                   /\ 1 \in S => RatEq(fn.triple.mrr, ROne)
                   /\ (2 \in S /\ 1 \notin S) => RatEq(fn.triple.mrr, RHalf)
                   /\ S # {} => RatEq(fn.triple.mrr, Rat(1, Least(S)))
                   /\ RatEq(fn.triple.context_precision, Rat(Cardinality(S), fn.n))
                   /\ fn.triple.context_recall_proxy =
                        IF v.suf = "true" THEN ROne ELSE RHalf

\* C10 witness: the judge listed index 2 before index 1 and found the chunks
\* insufficient.
C10_SecondListedFirst ==
    /\ fn.name = "evaluate_retrieval"
    /\ fn.n = 2
    /\ fn.reply = ReplyDict(JsonObject(RelList(<<2, 1>>), "false"))
    /\ fn.triple = Triple(Rat(2, 2), Rat(1, 1), RHalf)

\* ------------------------------------------------ properties of the chunker

\* " " + text of segments a..b of the transcript, as the loop accumulates them
RECURSIVE JoinSegs(_, _, _)
JoinSegs(td, a, b) ==
    IF a > b THEN <<>> ELSE <<" ">> \o td[a].text \o JoinSegs(td, a + 1, b)

\* ends is the set of the last segment of each chunk: the k-th chunk covers
\* the segments RunFirst(ends, k)..RunLast(ends, k)
RunLast(ends, k) == CHOOSE e \in ends : Cardinality({ x \in ends : x <= e }) = k
RunFirst(ends, k) == IF k = 1 THEN 1 ELSE RunLast(ends, k - 1) + 1

\* the chunks are the consecutive runs of segments that ends cuts, in order,
\* each chunk's text the trimmed text of its run
IsChunking(td, chunks, ends) ==
    /\ ends \subseteq 1..Len(td)
    /\ td # <<>> => Len(td) \in ends
    /\ Cardinality(ends) = Len(chunks)
    /\ \A k \in DOMAIN chunks :
        chunks[k].text = Strip(JoinSegs(td, RunFirst(ends, k), RunLast(ends, k)))

RECURSIVE WordsOfChunks(_)
WordsOfChunks(chunks) ==
    IF chunks = <<>> THEN <<>>
    ELSE Split(chunks[1].text) \o WordsOfChunks(Tail(chunks))

\* the characters of the transcript's segment texts
RECURSIVE TotalChars(_)
TotalChars(td) == IF td = <<>> THEN 0 ELSE Len(td[1].text) + TotalChars(Tail(td))

\* 3 segments whose total exceeds CHUNK_SIZE by at most a quarter (1200
\* characters against 1000)
Scenario(td) ==
    /\ Len(td) = 3
    /\ TotalChars(td) > CHUNK_SIZE
    /\ TotalChars(td) <= CHUNK_SIZE + CHUNK_SIZE \div 4

\* C12: the chunks are consecutive runs of the segments in the original order,
\* every segment in exactly one run; the words of the chunk texts, in order,
\* are the words of the transcript; no segments give no chunks.
C12_ChunkerLosesNothing ==
    fn.name = "create_rag_index" =>
        /\ fn.transcript_data = <<>> => fn.chunks = <<>>
        /\ \E ends \in SUBSET (1..Len(fn.transcript_data)) :
                IsChunking(fn.transcript_data, fn.chunks, ends)
        /\ WordsOfChunks(fn.chunks) =
                Split(JoinSegs(fn.transcript_data, 1, Len(fn.transcript_data)))

\* C12 witness: a transcript of three segments was cut into more than one
\* chunk.
C12_SeveralChunks ==
    /\ fn.name = "create_rag_index"
    /\ Len(fn.transcript_data) = 3
    /\ Len(fn.chunks) >= 2
    /\ Split(fn.chunks[2].text) # <<>>

\* C13: every chunk starts at the start time of the first segment of its run,
\* so for segments in time order the chunk starts never decrease.
C13_ChunkStartsAtFirstSegment ==
    fn.name = "create_rag_index" =>
        /\ \E ends \in SUBSET (1..Len(fn.transcript_data)) :
            /\ IsChunking(fn.transcript_data, fn.chunks, ends)
            /\ \A k \in DOMAIN fn.chunks :
                fn.chunks[k].start = fn.transcript_data[RunFirst(ends, k)].start
        /\ (\A i, j \in DOMAIN fn.transcript_data :
                i < j => fn.transcript_data[i].start <= fn.transcript_data[j].start)
            => \A k \in 2..Len(fn.chunks) :
                fn.chunks[k - 1].start <= fn.chunks[k].start

\* C13 witness: the second chunk begins with a segment later than the one that
\* closed the first chunk.
C13_StartAfterClosingSegment ==
    /\ fn.name = "create_rag_index"
    /\ fn.transcript_data =
        << Seg(<<"e", "e", "e">>, 0), Seg(<<"d", "d">>, 2), Seg(<<"a">>, 5) >>
    /\ Len(fn.chunks) = 2
    /\ fn.chunks[2].start = 5

\* the threshold rule: no run exceeds CHUNK_SIZE before its last segment, and
\* every run but the last exceeds it with its last segment
ThresholdRule(td, chunks, ends) ==
    \A k \in DOMAIN chunks :
        /\ Len(JoinSegs(td, RunFirst(ends, k), RunLast(ends, k) - 1)) <= CHUNK_SIZE
        /\ k < Len(chunks) =>
            Len(JoinSegs(td, RunFirst(ends, k), RunLast(ends, k))) > CHUNK_SIZE

\* C14 as stated: chunks close by the threshold rule, and 3 segments totaling
\* 1200 characters at CHUNK_SIZE 1000 (here: in that proportion) give exactly
\* 2 chunks, the first of at least CHUNK_SIZE characters.
C14_ScenarioGivesTwoChunks ==
    fn.name = "create_rag_index" =>
        /\ \E ends \in SUBSET (1..Len(fn.transcript_data)) :
            /\ IsChunking(fn.transcript_data, fn.chunks, ends)
            /\ ThresholdRule(fn.transcript_data, fn.chunks, ends)
        /\ Scenario(fn.transcript_data) =>
            /\ Len(fn.chunks) = 2
            /\ Len(fn.chunks[1].text) >= CHUNK_SIZE

\* C14 amended: chunks close by the threshold rule; in the scenario there are
\* 2 chunks when the first two segments already exceed CHUNK_SIZE, the first
\* run being longer than CHUNK_SIZE before trimming, and 1 chunk when only
\* the third segment crosses it.
C14_ThresholdRule ==
    fn.name = "create_rag_index" =>
        /\ \E ends \in SUBSET (1..Len(fn.transcript_data)) :
            /\ IsChunking(fn.transcript_data, fn.chunks, ends)
            /\ ThresholdRule(fn.transcript_data, fn.chunks, ends)
        /\ Scenario(fn.transcript_data) =>
            IF Len(JoinSegs(fn.transcript_data, 1, 2)) > CHUNK_SIZE
            THEN /\ Len(fn.chunks) = 2
                 /\ \E e \in 1..2 :
                     /\ Len(JoinSegs(fn.transcript_data, 1, e)) > CHUNK_SIZE
                     /\ fn.chunks[1].text = Strip(JoinSegs(fn.transcript_data, 1, e))
                     /\ fn.chunks[2].text = Strip(JoinSegs(fn.transcript_data, e + 1, 3))
            ELSE Len(fn.chunks) = 1

\* C14 witness: the scenario with the threshold crossed at the second segment.
C14_CrossedAtSecondSegment ==
    /\ fn.name = "create_rag_index"
    /\ Scenario(fn.transcript_data)
    /\ Len(JoinSegs(fn.transcript_data, 1, 1)) <= CHUNK_SIZE
    /\ Len(JoinSegs(fn.transcript_data, 1, 2)) > CHUNK_SIZE
    /\ Len(fn.chunks) = 2

\* --------------------------------------------- properties of the evaluation

\* the caller supplied no ground truth: the field is missing, null or empty
NoGroundTruth(ground_truth) == ground_truth.isNone \/ ground_truth.s = <<>>

\* s[i..j] is the first whitespace-delimited token of s
IsFirstWord(s, i, j) ==
    /\ \A k \in 1..(i - 1) : IsSpace(s[k])
    /\ \A k \in i..j : ~IsSpace(s[k])
    /\ j = Len(s) \/ IsSpace(s[j + 1])

\* the integer that an integer token writes
IntegerValue(tok) ==
    IF tok[1] = "-" THEN 0 - DecimalVal(Tail(tok))
    ELSE IF tok[1] = "+" THEN DecimalVal(Tail(tok))
    ELSE DecimalVal(tok)

\* C11: calculate_correctness returns None exactly when no ground truth was
\* supplied, and then makes no judge call; with a ground truth it returns the
\* judge's integer rating over 5 ("3" gives 0.6); the ask response carries
\* null for correctness exactly when no ground truth was supplied.
C11_CorrectnessAbsentWithoutGroundTruth ==
    /\ fn.name = "calculate_correctness" =>
        /\ fn.out.val.none <=> NoGroundTruth(fn.ground_truth)
        /\ NoGroundTruth(fn.ground_truth) => fn.out.calls = 0
        /\ ~NoGroundTruth(fn.ground_truth) =>
            /\ fn.out.calls = 1
            /\ fn.reply = ReplyText(<<"3">>) => fn.out.val = Float(Rat(3, 5))
            /\ fn.reply.kind = "text" =>
                \A i \in DOMAIN fn.reply.text : \A j \in i..Len(fn.reply.text) :
                    (/\ IsFirstWord(fn.reply.text, i, j)
                     /\ IsIntegerToken(SubSeq(fn.reply.text, i, j))) =>
                        RatEq(fn.out.val.num,
                              Rat(IntegerValue(SubSeq(fn.reply.text, i, j)), 5))
    /\ (fn.name = "ask" /\ fn.resp.metrics.present) =>
        /\ fn.resp.metrics.correctness.none <=> NoGroundTruth(fn.ground_truth)
        /\ (~NoGroundTruth(fn.ground_truth) /\ fn.reply = ReplyText(<<"3">>)) =>
            fn.resp.metrics.correctness = Float(Rat(3, 5))

\* C11 witness: ask answered a request without ground truth and its metrics
\* carry null for correctness.
C11_AskWithoutGroundTruth ==
    /\ fn.name = "ask"
    /\ fn.ground_truth.isNone
    /\ ~fn.resp.error
    /\ fn.resp.metrics.present
    /\ fn.resp.metrics.correctness = PyNone

\* s[i..j] is a maximal run of non-space characters of s
MaximalRun(s, i, j) ==
    /\ i <= j
    /\ \A k \in i..j : ~IsSpace(s[k])
    /\ i = 1 \/ IsSpace(s[i - 1])
    /\ j = Len(s) \/ IsSpace(s[j + 1])

\* the lower-cased words of a text
LowerWords(s) ==
    { LowerText(SubSeq(s, p[1], p[2])) :
        p \in { q \in (DOMAIN s) \X (DOMAIN s) : MaximalRun(s, q[1], q[2]) } }

\* C15: calculate_faithfulness is the share of the answer's lower-cased words
\* that are words of the context: in [0,1], 1.0 when every word of the answer
\* is in the context, 0.0 when the answer has no words.
C15_FaithfulnessIsWordOverlap ==
    fn.name = "calculate_faithfulness" =>
        LET answerWords == LowerWords(fn.answer)
            contextWords == LowerWords(fn.context_text)
        IN /\ InUnit(fn.score)
           /\ answerWords = {} => fn.score = RZero
           /\ answerWords # {} =>
                RatEq(fn.score, Rat(Cardinality(answerWords \cap contextWords),
                                    Cardinality(answerWords)))
           /\ (answerWords # {} /\ answerWords \subseteq contextWords) =>
                RatEq(fn.score, ROne)

\* C15 witness: every word of the answer is in the context, in another case.
C15_EveryWordInContext ==
    /\ fn.name = "calculate_faithfulness"
    /\ fn.answer = <<"A", " ", "b">>
    /\ fn.context_text = <<"B", " ", "a">>
    /\ RatEq(fn.score, ROne)

\* -------------------------------------------------- properties of the facts

\* the times name occurs among the recognized spans with one of the labels
Frequency(ents, labels, name) ==
    Cardinality({ i \in DOMAIN ents :
                    ents[i].label \in labels /\ ents[i].text = name })

\* a leaderboard of at most 5 entries, ordered by count, each entry's count
\* the frequency of its entity
IsLeaderboard(board, ents, labels) ==
    /\ Len(board) <= 5
    /\ \A k \in 2..Len(board) : board[k - 1].mentions >= board[k].mentions
    /\ \A k \in DOMAIN board :
        board[k].mentions = Frequency(ents, labels, board[k].name)

\* C19 as stated: the mentions reported in top_people, top_organizations and
\* top_locations are the entities' frequencies among the recognized spans, and
\* each leaderboard has at most 5 entries ordered by that count.
C19_MentionsAreFrequencies ==
    fn.name = "process_transcript" =>
        /\ IsLeaderboard(fn.facts.top_people, fn.ents, { "PERSON" })
        /\ IsLeaderboard(fn.facts.top_organizations, fn.ents, { "ORG" })
        /\ IsLeaderboard(fn.facts.top_locations, fn.ents, { "GPE", "LOC" })

====
